---- MODULE Spec2Model ----
(***************************************************************************)
(* Model of the go-cache repository: the FIFO store (src/fifo/fifo.go)     *)
(* and the load-coalescing orchestrator ("Tour Cache") that wraps a store  *)
(* and a Loader (exercised by src/tour_cache_test.go).                     *)
(***************************************************************************)
EXTENDS Integers, Sequences, FiniteSets, TLC

(***************************************************************************)
(* Bounds of the model                                                     *)
(***************************************************************************)
\* number of distinct keys the FIFO operations are called with
NKeys == 3
\* the capacity of a bounded store (maxBytes > 0); 0 is always tried too
MaxBytes == 2
\* number of concurrent callers of the orchestrator
NCallers == 2
\* number of concurrent callers that all ask for the same key
NSame == 3
\* number of Get calls each orchestrator caller may make
MaxGets == 2

(***************************************************************************)
(* Keys and values                                                         *)
(***************************************************************************)
KeyName == <<"k1", "k2", "k3", "k4", "k5", "k6">>

Keys == {KeyName[i] : i \in 1..NKeys}

\* interface{} nil
Nil == [isNil |-> TRUE, bytes |-> <<>>]

\* a string value, as the sequence of its bytes
Str(b) == [isNil |-> FALSE, bytes |-> b]

\* byte strings of every length up to n, built from the byte 1
RECURSIVE Ones(_)
Ones(n) == IF n = 0 THEN <<>> ELSE Append(Ones(n - 1), 1)

\* the values Set is called with: nil and the strings of 1..MaxBytes+1
\* bytes (the longest is larger than MaxBytes on its own)
Values == {Nil} \cup {Str(Ones(n)) : n \in 1..(MaxBytes + 1)}

\* cache.CalcLen: the byte size of a value
CalcLen(v) == IF v.isNil THEN 0 ELSE Len(v.bytes)

(***************************************************************************)
(* container/list, as far as fifo.go uses it.  A list is the sequence of   *)
(* its elements front to back; an element is [id, key, value] where id     *)
(* stands for the *list.Element pointer and key, value for its *entry.     *)
(***************************************************************************)
NilElem == [id |-> 0, key |-> "", value |-> Nil]

Front(l) == IF l = <<>> THEN NilElem ELSE l[1]

PushBack(l, e) == Append(l, e)

Remove(l, e) == SelectSeq(l, LAMBDA x : x.id # e.id)

MoveToBack(l, e) ==
  IF \E i \in 1..Len(l) : l[i].id = e.id
    THEN Append(Remove(l, e), e)
    ELSE l

\* the element a pointer refers to
ElemAt(l, id) ==
  IF \E i \in 1..Len(l) : l[i].id = id
    THEN l[CHOOSE i \in 1..Len(l) : l[i].id = id]
    ELSE NilElem

\* en.value = value through the element's *entry
SetValue(l, id, v) ==
  [i \in 1..Len(l) |-> IF l[i].id = id THEN [l[i] EXCEPT !.value = v] ELSE l[i]]

\* a freshly allocated element: a pointer equal to no element of the list
NewId(l) == CHOOSE n \in 1..(Len(l) + 1) : \A i \in 1..Len(l) : l[i].id # n

\* delete(m, key)
MapDelete(m, k) == [x \in (DOMAIN m) \ {k} |-> m[x]]

\* m[key] = v
MapPut(m, k, v) == [x \in (DOMAIN m) \cup {k} |-> IF x = k THEN v ELSE m[x]]

EmptyMap == [x \in {} |-> 0]

(***************************************************************************)
(* State                                                                   *)
(***************************************************************************)
VARIABLES
  maxBytes,    \* fifo.maxBytes
  onEvicted,   \* TRUE iff fifo.onEvicted is not nil
  usedBytes,   \* fifo.usedBytes
  ll,          \* fifo.ll
  cache,       \* fifo.cache : key -> element pointer
  evicted,     \* the onEvicted(key, value) calls made by the latest operation
  last,        \* the latest call on the store
  order,       \* the keys of the store in the order of their most recent Set
  fits,        \* TRUE iff no value Set so far is larger than maxBytes > 0
  pc,          \* orchestrator: where each caller is in its Get
  gkey,        \* orchestrator: the key of each caller's current Get
  val,         \* orchestrator: the load result a caller holds during Get
  ret,         \* orchestrator: the key and result of a caller's completed Get
  gets,        \* orchestrator: the number of Get calls each caller has made
  inflight,    \* orchestrator: the keys with a load in flight
  nGet,        \* Stat.NGet
  nHit,        \* Stat.NHit
  loads        \* the number of Loader invocations per key

fifoVars == <<maxBytes, onEvicted, usedBytes, ll, cache, evicted>>

callVars == <<last, order, fits>>

tourVars == <<pc, gkey, val, ret, gets, inflight, nGet, nHit, loads>>

vars == <<fifoVars, callVars, tourVars>>

(***************************************************************************)
(* The fifo methods, as functions from the store before the call to the    *)
(* store after it.  A store is the record of the struct's fields plus the  *)
(* callback invocations made so far in the call.                           *)
(***************************************************************************)
Store ==
  [maxBytes |-> maxBytes, onEvicted |-> onEvicted, usedBytes |-> usedBytes,
   ll |-> ll, cache |-> cache, evicted |-> <<>>]

\* New(maxBytes, onEvicted)
New(mb, cb) ==
  [maxBytes |-> mb, onEvicted |-> cb, usedBytes |-> 0,
   ll |-> <<>>, cache |-> EmptyMap, evicted |-> <<>>]

\* removeElement that forgets the callback
removeElementNoCallback(f, e) ==
  IF e = NilElem
    THEN f
    ELSE [f EXCEPT !.ll = Remove(f.ll, e),
                   !.usedBytes = @ - CalcLen(e.value),
                   !.cache = MapDelete(@, e.key)]

\* removeElement without the test for a nil element
removeElementNoNilCheck(f, e) ==
  [f EXCEPT !.ll = Remove(f.ll, e),
            !.usedBytes = @ - CalcLen(e.value),
            !.cache = MapDelete(@, e.key),
            !.evicted = IF f.onEvicted
                          THEN Append(@, <<e.key, e.value>>)
                          ELSE @]

\* removeElement that leaves the key in the index
removeElementNoDelete(f, e) ==
  IF e = NilElem
    THEN f
    ELSE [f EXCEPT !.ll = Remove(f.ll, e),
                   !.usedBytes = @ - CalcLen(e.value),
                   !.evicted = IF f.onEvicted
                                 THEN Append(@, <<e.key, e.value>>)
                                 ELSE @]

removeElement(f, e) ==
  IF e = NilElem
    THEN f
    ELSE [f EXCEPT !.ll = Remove(f.ll, e),
                   !.usedBytes = @ - CalcLen(e.value),
                   !.cache = MapDelete(@, e.key),
                   !.evicted = IF f.onEvicted
                                 THEN Append(@, <<e.key, e.value>>)
                                 ELSE @]

DelOldest(f) == removeElement(f, Front(f.ll))

Del(f, key) ==
  IF key \in DOMAIN f.cache
    THEN removeElement(f, ElemAt(f.ll, f.cache[key]))
    ELSE f

\* the condition without the test for "no limit"
OverCapacityNoZero(f) == f.usedBytes > f.maxBytes

\* the condition of the if statement at the end of Set
OverCapacity(f) == f.maxBytes > 0 /\ f.usedBytes > f.maxBytes

\* the existing-key branch without MoveToBack
SetExistingNoMove(f, key, value) ==
  LET e == ElemAt(f.ll, f.cache[key])
  IN  [f EXCEPT !.ll = SetValue(@, e.id, value),
                !.usedBytes = @ - CalcLen(e.value) + CalcLen(value)]

\* the existing-key branch that does not subtract the old size
SetExistingNoSub(f, key, value) ==
  LET e == ElemAt(f.ll, f.cache[key])
  IN  [f EXCEPT !.ll = SetValue(MoveToBack(@, e), e.id, value),
                !.usedBytes = @ + CalcLen(value)]

\* the existing-key branch that keeps the old value
SetExistingNoValue(f, key, value) ==
  LET e == ElemAt(f.ll, f.cache[key])
  IN  [f EXCEPT !.ll = MoveToBack(@, e),
                !.usedBytes = @ - CalcLen(e.value) + CalcLen(value)]

\* the existing-key branch of Set
SetExisting(f, key, value) ==
  LET e == ElemAt(f.ll, f.cache[key])
  IN  [f EXCEPT !.ll = SetValue(MoveToBack(@, e), e.id, value),
                !.usedBytes = @ - CalcLen(e.value) + CalcLen(value)]

\* the new-key branch without the assignment to the index
SetNewNoIndex(f, key, value) ==
  LET e  == [id |-> NewId(f.ll), key |-> key, value |-> value]
      f1 == [f EXCEPT !.ll = PushBack(@, e),
                      !.usedBytes = @ + CalcLen(e.value)]
  IN  IF OverCapacity(f1) THEN DelOldest(f1) ELSE f1

\* the new-key branch of Set
SetNew(f, key, value) ==
  LET e  == [id |-> NewId(f.ll), key |-> key, value |-> value]
      f1 == [f EXCEPT !.ll = PushBack(@, e),
                      !.cache = MapPut(@, key, e.id),
                      !.usedBytes = @ + CalcLen(e.value)]
  IN  IF OverCapacity(f1) THEN DelOldest(f1) ELSE f1

Set(f, key, value) ==
  IF key \in DOMAIN f.cache
    THEN SetExisting(f, key, value)
    ELSE SetNew(f, key, value)

\* a Get that reads the front element instead of the key's element
GetFront(f, key) ==
  IF key \in DOMAIN f.cache
    THEN Front(f.ll).value
    ELSE Nil

\* a Get that never finds the key
GetMiss(f, key) == Nil

\* a Get that returns a stored nil as an empty, non-nil value
GetNilAsEmpty(f, key) ==
  IF key \in DOMAIN f.cache
    THEN IF ElemAt(f.ll, f.cache[key]).value = Nil
           THEN Str(<<>>)
           ELSE ElemAt(f.ll, f.cache[key]).value
    ELSE Nil

\* Get returns the value; it assigns nothing
Get(f, key) ==
  IF key \in DOMAIN f.cache
    THEN ElemAt(f.ll, f.cache[key]).value
    ELSE Nil

\* a Get that moves the entry to the back, as an access-order store does
GetEffectMoveToBack(f, key) ==
  IF key \in DOMAIN f.cache
    THEN [f EXCEPT !.ll = MoveToBack(@, ElemAt(f.ll, f.cache[key]))]
    ELSE f

\* the store after Get
GetEffect(f, key) == f

FifoLen(f) == Len(f.ll)

\* Pointer values are opaque to the program: the elements are renumbered
\* front to back, and the index with them, so that stores differing only
\* in the pointer values are one state.  A pointer to no element of the
\* list becomes 0.
Renumber(f) ==
  LET pos(id) == IF \E i \in 1..Len(f.ll) : f.ll[i].id = id
                   THEN CHOOSE i \in 1..Len(f.ll) : f.ll[i].id = id
                   ELSE 0
  IN  [f EXCEPT !.ll = [i \in 1..Len(f.ll) |-> [f.ll[i] EXCEPT !.id = i]],
                !.cache = [k \in DOMAIN f.cache |-> pos(f.cache[k])]]

\* the struct's fields and the callback log after a call
Install(f) ==
  /\ maxBytes' = f.maxBytes
  /\ onEvicted' = f.onEvicted
  /\ usedBytes' = f.usedBytes
  /\ ll' = Renumber(f).ll
  /\ cache' = Renumber(f).cache
  /\ evicted' = f.evicted

\* the struct's fields right after New
Created(f) ==
  /\ maxBytes = f.maxBytes
  /\ onEvicted = f.onEvicted
  /\ usedBytes = f.usedBytes
  /\ ll = f.ll
  /\ cache = f.cache
  /\ evicted = f.evicted

\* the keys of m, in the order of o
Live(o, m) == SelectSeq(o, LAMBDA x : x \in DOMAIN m)

\* the order of most recent Sets after Set(key, _)
Touch(o, key) == Append(SelectSeq(o, LAMBDA x : x # key), key)

\* the latest call: its name, its arguments, and whether it found its key
\* in the index (DelOldest: whether it found an entry)
NoArg == [op |-> "New", key |-> "", value |-> Nil, found |-> FALSE]

\* a value that is at most maxBytes in size, when there is a limit
Fits(value) == maxBytes = 0 \/ CalcLen(value) <= maxBytes

(***************************************************************************)
(* The store used directly (single-threaded): one action per method        *)
(***************************************************************************)
\* no orchestrator: no callers, nothing counted
NoTour ==
  /\ pc = EmptyMap /\ gkey = EmptyMap /\ val = EmptyMap /\ ret = EmptyMap
  /\ gets = EmptyMap /\ inflight = {} /\ nGet = 0 /\ nHit = 0
  /\ loads = EmptyMap

Init ==
  /\ \E mb \in {0, MaxBytes}, cb \in BOOLEAN : Created(New(mb, cb))
  /\ last = NoArg
  /\ order = <<>>
  /\ fits = TRUE
  /\ NoTour

DoSet(key, value) ==
  /\ Install(Set(Store, key, value))
  /\ last' = [op |-> "Set", key |-> key, value |-> value,
              found |-> key \in DOMAIN cache]
  /\ order' = Live(Touch(order, key), cache')
  /\ fits' = (fits /\ Fits(value))
  /\ UNCHANGED tourVars

DoGet(key) ==
  /\ Install(GetEffect(Store, key))
  /\ last' = [NoArg EXCEPT !.op = "Get", !.key = key,
                           !.found = key \in DOMAIN cache]
  /\ order' = Live(order, cache')
  /\ fits' = fits
  /\ UNCHANGED tourVars

DoDel(key) ==
  /\ Install(Del(Store, key))
  /\ last' = [NoArg EXCEPT !.op = "Del", !.key = key,
                           !.found = key \in DOMAIN cache]
  /\ order' = Live(order, cache')
  /\ fits' = fits
  /\ UNCHANGED tourVars

DoDelOldest ==
  /\ Install(DelOldest(Store))
  /\ last' = [NoArg EXCEPT !.op = "DelOldest", !.found = ll # <<>>]
  /\ order' = Live(order, cache')
  /\ fits' = fits
  /\ UNCHANGED tourVars

DoLen ==
  /\ Install(Store)
  /\ last' = [NoArg EXCEPT !.op = "Len"]
  /\ order' = Live(order, cache')
  /\ fits' = fits
  /\ UNCHANGED tourVars

Next ==
  \/ \E key \in Keys, value \in Values : DoSet(key, value)
  \/ \E key \in Keys : DoGet(key)
  \/ \E key \in Keys : DoDel(key)
  \/ DoDelOldest
  \/ DoLen

Spec == Init /\ [][Next]_vars

(***************************************************************************)
(* Properties of the FIFO store                                            *)
(***************************************************************************)
\* the keys of the list, front to back
KeysOf(l) == [i \in 1..Len(l) |-> l[i].key]

\* the sum of the byte sizes of the values the index leads to
RECURSIVE SumBytes(_)
SumBytes(ks) ==
  IF ks = {}
    THEN 0
    ELSE LET k == CHOOSE x \in ks : TRUE
         IN  CalcLen(ElemAt(ll, cache[k]).value) + SumBytes(ks \ {k})

\* the keys a step removed: in the index before the call, or added by it,
\* and not in the index after it
Removed ==
  ((DOMAIN cache) \cup (IF last'.op = "Set" THEN {last'.key} ELSE {}))
    \ (DOMAIN cache')

\* the value a key holds when a step removes it
ValueAtRemoval(k) ==
  IF last'.op = "Set" /\ last'.key = k THEN last'.value ELSE Get(Store, k)

\* C1: on a store with maxBytes > 0, after every Set returns usedBytes is at
\* most maxBytes, provided no value Set so far is larger than maxBytes.
CapacityAfterSet ==
  (last.op = "Set" /\ maxBytes > 0 /\ fits) => usedBytes <= maxBytes

\* C2: an entry removed by capacity eviction or DelOldest is the live key
\* whose most recent Set is the earliest; a re-Set key becomes the most
\* recent one; the list is kept in the order of the most recent Sets.
FifoOrder ==
  [][/\ last'.op \in {"Set", "DelOldest"} =>
          \A k \in Removed :
             k = Head(IF last'.op = "Set" THEN Touch(order, last'.key) ELSE order)
     /\ (last'.op = "Set" /\ last'.key \in DOMAIN cache') =>
          ll'[Len(ll')].key = last'.key
     /\ KeysOf(ll') = order']_vars

\* a Set of a new key that evicted the oldest of several keys by capacity
FifoOrderWitness ==
  /\ last.op = "Set" /\ ~last.found
  /\ onEvicted /\ Len(evicted) = 1 /\ evicted[1][1] # last.key
  /\ Len(ll) >= 2

\* C3: usedBytes is the sum of the byte sizes of the values of exactly the
\* entries in the key index, and is never negative.
AccountingExact ==
  /\ usedBytes = SumBytes(DOMAIN cache)
  /\ usedBytes >= 0

\* a re-Set that changed the size of a value, next to other entries
AccountingWitness ==
  /\ last.op = "Set" /\ last.found
  /\ Len(ll) >= 2 /\ usedBytes > MaxBytes

\* C4: with onEvicted configured every removal calls it exactly once with
\* the removed key and its latest value; it is never called for a key that
\* stays, nor by a Set that overwrites a value.
CallbackComplete ==
  [][onEvicted =>
       /\ Len(evicted') = Cardinality(Removed)
       /\ \A k \in Removed :
            \E i \in 1..Len(evicted') : evicted'[i] = <<k, ValueAtRemoval(k)>>
       /\ \A i \in 1..Len(evicted') : evicted'[i][1] \notin DOMAIN cache'
       /\ (last'.op = "Set" /\ last'.found) => evicted' = <<>>]_vars

\* Del of a present key called back with the value of its latest Set
CallbackWitness ==
  /\ onEvicted /\ last.op = "Del" /\ last.found
  /\ Len(evicted) = 1 /\ evicted[1][1] = last.key /\ ll # <<>>

\* C8: with maxBytes = 0 no Set removes an entry or calls onEvicted;
\* entries leave only through Del and DelOldest.
NoLimitNeverEvicts ==
  [][maxBytes = 0 =>
       /\ last'.op = "Set" =>
            /\ Removed = {}
            /\ evicted' = <<>>
            /\ Len(ll') >= Len(ll)
       /\ Removed # {} => last'.op \in {"Del", "DelOldest"}]_vars

\* an unlimited store that holds more than MaxBytes after a Set
NoLimitWitness ==
  /\ maxBytes = 0 /\ onEvicted /\ last.op = "Set"
  /\ Len(ll) = NKeys /\ usedBytes > MaxBytes

\* C9: on a store with maxBytes > 0, after a Set of a value larger than
\* maxBytes exactly that entry remains.
OversizedAlone ==
  (last.op = "Set" /\ maxBytes > 0 /\ CalcLen(last.value) > maxBytes) =>
     /\ Len(ll) = 1
     /\ DOMAIN cache = {last.key}
     /\ Get(Store, last.key) = last.value

\* C10: Get changes neither the list, the index, the values, usedBytes nor
\* Len, and calls nothing back.
GetIsPureRead ==
  [][last'.op = "Get" =>
       /\ ll' = ll
       /\ cache' = cache
       /\ usedBytes' = usedBytes
       /\ Len(ll') = Len(ll)
       /\ Front(ll') = Front(ll)
       /\ evicted' = <<>>]_vars

\* a Get of a present key that is not the newest, on a store with a limit
GetWitness ==
  /\ last.op = "Get" /\ last.found
  /\ maxBytes > 0 /\ Len(ll) >= 2 /\ ll[Len(ll)].key # last.key

\* C11: Del of a key that is not in the store and DelOldest on an empty
\* store change neither the list, the index, usedBytes nor Len, and call
\* nothing back.
RemoveNothing ==
  [][(last'.op \in {"Del", "DelOldest"} /\ ~last'.found) =>
       /\ ll' = ll
       /\ cache' = cache
       /\ usedBytes' = usedBytes
       /\ Len(ll') = Len(ll)
       /\ evicted' = <<>>]_vars

\* Del of an absent key on a store that holds entries and has a callback
RemoveNothingWitness ==
  /\ last.op = "Del" /\ ~last.found
  /\ onEvicted /\ Len(ll) >= 2 /\ usedBytes > 0

\* C13: Get(key) returns nil if and only if key is not in the index.
GetNilIffAbsent ==
  \A k \in Keys : (Get(Store, k) = Nil) <=> (k \notin DOMAIN cache)

\* C14: a Set of an existing key that makes usedBytes greater than
\* maxBytes > 0 evicts from the head before it returns (no value Set so far
\* being larger than maxBytes).
UpdateEvicts ==
  [][(/\ last'.op = "Set" /\ last'.found /\ maxBytes > 0 /\ fits'
      /\ usedBytes - CalcLen(Get(Store, last'.key)) + CalcLen(last'.value)
           > maxBytes) =>
       /\ Len(ll') < Len(ll)
       /\ Front(ll).key \notin DOMAIN cache']_vars

\* C15: a Set of a new key that leaves usedBytes more than the head entry's
\* size above maxBytes > 0 goes on evicting until usedBytes is at most
\* maxBytes or the store is empty (no value Set so far being larger than
\* maxBytes).
EvictsUntilFits ==
  [][(/\ last'.op = "Set" /\ ~last'.found /\ maxBytes > 0 /\ fits'
      /\ usedBytes + CalcLen(last'.value) - CalcLen(Front(ll).value)
           > maxBytes) =>
       (usedBytes' <= maxBytes \/ ll' = <<>>)]_vars

\* the list without the element of key k
Others(l, k) == SelectSeq(l, LAMBDA x : x.key # k)

\* C16: Set of a key that is present keeps Len and the indexed keys, makes
\* Get return the new value, changes usedBytes by the difference of the
\* sizes, moves the key to the tail and keeps the order of the others.
UpdateInPlace ==
  [][(last'.op = "Set" /\ last'.found) =>
       /\ Len(ll') = Len(ll)
       /\ DOMAIN cache' = DOMAIN cache
       /\ Get(Store', last'.key) = last'.value
       /\ usedBytes' = usedBytes + CalcLen(last'.value)
                                 - CalcLen(Get(Store, last'.key))
       /\ ll'[Len(ll')].key = last'.key
       /\ KeysOf(Others(ll', last'.key)) = KeysOf(Others(ll, last'.key))
       /\ \A k \in (DOMAIN cache) \ {last'.key} :
            Get(Store', k) = Get(Store, k)]_vars

\* a full store after a key was Set again with a string
UpdateInPlaceWitness ==
  /\ last.op = "Set" /\ last.found /\ last.value # Nil
  /\ Len(ll) = NKeys /\ maxBytes = 0

\* C17: the index and the list correspond one to one: every indexed key
\* leads to exactly one element, which holds that key; every element is
\* indexed under its key; no key is twice in the list; Len() is the number
\* of indexed keys.
IndexMatchesList ==
  /\ \A k \in DOMAIN cache :
       /\ Cardinality({i \in 1..Len(ll) : ll[i].id = cache[k]}) = 1
       /\ ElemAt(ll, cache[k]).key = k
  /\ \A i \in 1..Len(ll) :
       /\ ll[i].key \in DOMAIN cache
       /\ cache[ll[i].key] = ll[i].id
  /\ \A i, j \in 1..Len(ll) : ll[i].key = ll[j].key => i = j
  /\ FifoLen(Store) = Cardinality(DOMAIN cache)

\* a store without callback that holds entries after a Del of one
IndexWitness ==
  /\ last.op = "Del" /\ last.found
  /\ ~onEvicted /\ Len(ll) >= 2

(***************************************************************************)
(* The load-coalescing orchestrator (Tour Cache) in front of a store and   *)
(* a Loader.  Whatever Get does with the store, the in-flight registry and *)
(* the counters is done under the orchestrator's lock, so each such        *)
(* section is one step; the Loader runs outside the lock, as a step of     *)
(* its own.                                                                *)
(***************************************************************************)
\* the keys of the test's db: k1 .. k5
DbSize == 5

DbKeys == {KeyName[i] : i \in 1..DbSize}

\* db[k<i>] = "v<i>", as bytes
Db == [k \in DbKeys |-> Str(<<118, 48 + (CHOOSE i \in 1..DbSize : KeyName[i] = k)>>)]

\* the test's getter: the db value, or nil for a key the db does not have
Loader(key) == IF key \in DbKeys THEN Db[key] ELSE Nil

Unknown == "unknown"

\* the keys the callers ask for: two the Loader knows, one it does not
TourKeys == {KeyName[1], KeyName[2], Unknown}

Callers == 1..NCallers

NoRet == [key |-> "", value |-> Nil]

\* the snapshot Stat() returns
Stat == [NGet |-> nGet, NHit |-> nHit]

\* NewTourCache(getter, store) with the given callers and keys
NewTourCache(f, cs, ks) ==
  /\ Created(f)
  /\ last = NoArg /\ order = <<>> /\ fits = TRUE
  /\ pc = [c \in cs |-> "idle"]
  /\ gkey = [c \in cs |-> ""]
  /\ val = [c \in cs |-> Nil]
  /\ ret = [c \in cs |-> NoRet]
  /\ gets = [c \in cs |-> 0]
  /\ inflight = {}
  /\ nGet = 0 /\ nHit = 0
  /\ loads = [k \in ks |-> 0]

\* a caller enters Get(key)
TourCall(c, key) ==
  /\ pc[c] = "idle" /\ gets[c] < MaxGets
  /\ key \in DOMAIN loads
  /\ pc' = [pc EXCEPT ![c] = "called"]
  /\ gkey' = [gkey EXCEPT ![c] = key]
  /\ gets' = [gets EXCEPT ![c] = @ + 1]
  /\ ret' = [ret EXCEPT ![c] = NoRet]
  /\ UNCHANGED <<fifoVars, callVars, val, inflight, nGet, nHit, loads>>

\* steps 1 and 2: count the call, find the key in the store, count the hit
TourHit(c) ==
  /\ pc[c] = "called"
  /\ Get(Store, gkey[c]) # Nil
  /\ Install(GetEffect(Store, gkey[c]))
  /\ nGet' = nGet + 1
  /\ nHit' = nHit + 1
  /\ ret' = [ret EXCEPT ![c] = [key |-> gkey[c], value |-> Get(Store, gkey[c])]]
  /\ pc' = [pc EXCEPT ![c] = "idle"]
  /\ gkey' = [gkey EXCEPT ![c] = ""]
  /\ UNCHANGED <<callVars, val, gets, inflight, loads>>

\* steps 1 to 3: a miss while a load for the key is in flight: attach to it
TourAttach(c) ==
  /\ pc[c] = "called"
  /\ Get(Store, gkey[c]) = Nil
  /\ gkey[c] \in inflight
  /\ Install(GetEffect(Store, gkey[c]))
  /\ nGet' = nGet + 1
  /\ pc' = [pc EXCEPT ![c] = "waiting"]
  /\ UNCHANGED <<callVars, gkey, val, ret, gets, inflight, nHit, loads>>

\* a registration that waits until no load at all is in flight
TourRegisterSerial(c) ==
  /\ pc[c] = "called"
  /\ Get(Store, gkey[c]) = Nil
  /\ inflight = {}
  /\ Install(GetEffect(Store, gkey[c]))
  /\ nGet' = nGet + 1
  /\ inflight' = inflight \cup {gkey[c]}
  /\ pc' = [pc EXCEPT ![c] = "loading"]
  /\ UNCHANGED <<callVars, gkey, val, ret, gets, nHit, loads>>

\* steps 1, 2 and 4: a miss with no load in flight: register one
TourRegister(c) ==
  /\ pc[c] = "called"
  /\ Get(Store, gkey[c]) = Nil
  /\ gkey[c] \notin inflight
  /\ Install(GetEffect(Store, gkey[c]))
  /\ nGet' = nGet + 1
  /\ inflight' = inflight \cup {gkey[c]}
  /\ pc' = [pc EXCEPT ![c] = "loading"]
  /\ UNCHANGED <<callVars, gkey, val, ret, gets, nHit, loads>>

\* step 4: the Loader runs, without the lock
TourLoad(c) ==
  /\ pc[c] = "loading"
  /\ val' = [val EXCEPT ![c] = Loader(gkey[c])]
  /\ loads' = [loads EXCEPT ![gkey[c]] = @ + 1]
  /\ pc' = [pc EXCEPT ![c] = "loaded"]
  /\ UNCHANGED <<fifoVars, callVars, gkey, ret, gets, inflight, nGet, nHit>>

\* a store step that does not hand the result to the waiters
TourStoreNoWake(c) ==
  /\ pc[c] = "loaded"
  /\ Install(Set(Store, gkey[c], val[c]))
  /\ inflight' = inflight \ {gkey[c]}
  /\ val' = [val EXCEPT ![c] = Nil]
  /\ pc' = [pc EXCEPT ![c] = "idle"]
  /\ ret' = [ret EXCEPT ![c] = [key |-> gkey[c], value |-> val[c]]]
  /\ gkey' = [gkey EXCEPT ![c] = ""]
  /\ UNCHANGED <<callVars, gets, nGet, nHit, loads>>

\* step 4: store the result, release the registration, hand the result to
\* the attached waiters, return it
TourStore(c) ==
  /\ pc[c] = "loaded"
  /\ Install(Set(Store, gkey[c], val[c]))
  /\ inflight' = inflight \ {gkey[c]}
  /\ val' = [w \in DOMAIN val |->
               IF w = c THEN Nil
               ELSE IF pc[w] = "waiting" /\ gkey[w] = gkey[c] THEN val[c]
               ELSE val[w]]
  /\ pc' = [w \in DOMAIN pc |->
              IF w = c THEN "idle"
              ELSE IF pc[w] = "waiting" /\ gkey[w] = gkey[c] THEN "woken"
              ELSE pc[w]]
  /\ ret' = [ret EXCEPT ![c] = [key |-> gkey[c], value |-> val[c]]]
  /\ gkey' = [gkey EXCEPT ![c] = ""]
  /\ UNCHANGED <<callVars, gets, nGet, nHit, loads>>

\* a waiter returns the result it was handed
TourWake(c) ==
  /\ pc[c] = "woken"
  /\ ret' = [ret EXCEPT ![c] = [key |-> gkey[c], value |-> val[c]]]
  /\ pc' = [pc EXCEPT ![c] = "idle"]
  /\ gkey' = [gkey EXCEPT ![c] = ""]
  /\ val' = [val EXCEPT ![c] = Nil]
  /\ UNCHANGED <<fifoVars, callVars, gets, inflight, nGet, nHit, loads>>

\* any callers, any keys, a store with any limit up to MaxBytes
InitTour ==
  \E mb \in 0..MaxBytes : NewTourCache(New(mb, FALSE), Callers, TourKeys)

NextTour ==
  \/ \E c \in DOMAIN pc, key \in TourKeys : TourCall(c, key)
  \/ \E c \in DOMAIN pc : TourHit(c)
  \/ \E c \in DOMAIN pc : TourAttach(c)
  \/ \E c \in DOMAIN pc : TourRegister(c)
  \/ \E c \in DOMAIN pc : TourLoad(c)
  \/ \E c \in DOMAIN pc : TourStore(c)
  \/ \E c \in DOMAIN pc : TourWake(c)

SpecTour == InitTour /\ [][NextTour]_vars

\* the steps of caller c inside Get
TourStep(c) ==
  \/ TourHit(c)
  \/ TourAttach(c)
  \/ TourRegister(c)
  \/ TourLoad(c)
  \/ TourStore(c)
  \/ TourWake(c)

\* some caller inside Get
AnyTourStep == \E c \in DOMAIN pc : TourStep(c)

(***************************************************************************)
(* NSame callers that have all entered Get for the same key of an empty    *)
(* store, and make no other call                                           *)
(***************************************************************************)
SameCallers == 1..NSame

\* the store has no limit or one that every value of the Loader fits
InitSame ==
  \E mb \in {0, MaxBytes}, key \in TourKeys :
    /\ Created(New(mb, FALSE))
    /\ last = NoArg /\ order = <<>> /\ fits = TRUE
    /\ pc = [c \in SameCallers |-> "called"]
    /\ gkey = [c \in SameCallers |-> key]
    /\ val = [c \in SameCallers |-> Nil]
    /\ ret = [c \in SameCallers |-> NoRet]
    /\ gets = [c \in SameCallers |-> MaxGets]
    /\ inflight = {}
    /\ nGet = 0 /\ nHit = 0
    /\ loads = [k \in {key} |-> 0]

NextSame ==
  \/ \E c \in DOMAIN pc : TourHit(c)
  \/ \E c \in DOMAIN pc : TourAttach(c)
  \/ \E c \in DOMAIN pc : TourRegister(c)
  \/ \E c \in DOMAIN pc : TourLoad(c)
  \/ \E c \in DOMAIN pc : TourStore(c)
  \/ \E c \in DOMAIN pc : TourWake(c)

SpecSame == InitSame /\ [][NextSame]_vars

\* while some caller can take a step inside Get, one is eventually taken:
\* the scheduler runs the callers and every Loader call returns
SpecSameFair == SpecSame /\ WF_vars(AnyTourStep)

(***************************************************************************)
(* TestTourCache: an unlimited store, one goroutine per db key that calls  *)
(* Get(k) twice, and after wg.Wait() two calls of Get("unknown")           *)
(***************************************************************************)
\* the Get calls each goroutine, and the test's main line, makes
ScenGets == 2

Workers == 1..DbSize

Main == DbSize + 1

\* the goroutine of db key k<c> calls Get(k<c>)
ScenWorkerCall(c) ==
  /\ c \in Workers
  /\ pc[c] = "idle" /\ gets[c] < ScenGets
  /\ pc' = [pc EXCEPT ![c] = "called"]
  /\ gkey' = [gkey EXCEPT ![c] = KeyName[c]]
  /\ gets' = [gets EXCEPT ![c] = @ + 1]
  /\ ret' = [ret EXCEPT ![c] = NoRet]
  /\ UNCHANGED <<fifoVars, callVars, val, inflight, nGet, nHit, loads>>

\* after wg.Wait(): the test calls Get("unknown")
ScenMainCall ==
  /\ \A w \in Workers : pc[w] = "idle" /\ gets[w] = ScenGets
  /\ pc[Main] = "idle" /\ gets[Main] < ScenGets
  /\ pc' = [pc EXCEPT ![Main] = "called"]
  /\ gkey' = [gkey EXCEPT ![Main] = Unknown]
  /\ gets' = [gets EXCEPT ![Main] = @ + 1]
  /\ ret' = [ret EXCEPT ![Main] = NoRet]
  /\ UNCHANGED <<fifoVars, callVars, val, inflight, nGet, nHit, loads>>

InitScen ==
  NewTourCache(New(0, FALSE), Workers \cup {Main}, DbKeys \cup {Unknown})

\* no two calls of the test are for the same key at the same time, so no
\* caller ever attaches to a load in flight
NextScen ==
  \/ \E c \in DOMAIN pc : ScenWorkerCall(c)
  \/ ScenMainCall
  \/ \E c \in DOMAIN pc : TourHit(c)
  \/ \E c \in DOMAIN pc : TourRegister(c)
  \/ \E c \in DOMAIN pc : TourLoad(c)
  \/ \E c \in DOMAIN pc : TourStore(c)

SpecScen == InitScen /\ [][NextScen]_vars

(***************************************************************************)
(* Properties of the orchestrator                                          *)
(***************************************************************************)
\* every caller has returned from its Get
AllReturned == \A c \in DOMAIN pc : pc[c] = "idle" /\ ret[c] # NoRet

\* the callers that are running the Loader for key k or hold its result
Loading(k) == {c \in DOMAIN pc : pc[c] \in {"loading", "loaded"} /\ gkey[c] = k}

\* a value the store holds, once Set, for as long as no other key is Set
Kept(v) == v # Nil /\ (maxBytes = 0 \/ CalcLen(v) <= maxBytes)

ScenDone == \A c \in DOMAIN pc : pc[c] = "idle" /\ gets[c] = ScenGets

\* C6: after the test's calls Stat() reports NGet = 10 and NHit = 4.
StatScenario == ScenDone => Stat = [NGet |-> 10, NHit |-> 4]

\* C7: every Get returns exactly what the Loader returns for its key, on a
\* miss and on a hit, and nil for a key the Loader does not know.
ReadThrough ==
  \A c \in DOMAIN pc : ret[c] # NoRet => ret[c].value = Loader(ret[c].key)

\* a second Get of a key was answered from the store with the Loader's
\* value, while the store also holds another key
ReadThroughWitness ==
  /\ nHit >= 1 /\ Len(ll) >= 2
  /\ \E c \in DOMAIN pc :
       ret[c] # NoRet /\ ret[c].value # Nil /\ gets[c] = MaxGets
  /\ \E c \in DOMAIN pc : ret[c] # NoRet /\ ret[c].value = Nil

\* the key is in the store with a value that is not nil
Found(k) == k \in DOMAIN cache /\ ElemAt(ll, cache[k]).value # Nil

\* caller c goes through the lookup of its Get in this step
Lookup(c) == pc[c] = "called" /\ pc'[c] # "called"

\* C12: an absent Loader result is not cached: a Get of a key the Loader
\* does not know is never answered from the store nor counted as a hit, it
\* runs the Loader again or waits for a load in flight; the initiator and
\* the waiters of such a load all receive absent.
AbsentNotCached ==
  [][\A c \in DOMAIN pc :
       /\ (Lookup(c) /\ Loader(gkey[c]) = Nil) =>
            /\ nHit' = nHit
            /\ pc'[c] \in {"loading", "waiting"}
            /\ pc'[c] = "waiting" =>
                 \E d \in DOMAIN pc : pc[d] \in {"loading", "loaded"}
                                        /\ gkey[d] = gkey[c]
       /\ (pc[c] = "loading" /\ pc'[c] # "loading" /\ Loader(gkey[c]) = Nil) =>
            loads'[gkey[c]] = loads[gkey[c]] + 1
       /\ (pc'[c] \in {"loaded", "woken"} /\ Loader(gkey'[c]) = Nil) =>
            val'[c] = Nil
       /\ (ret'[c] # NoRet /\ Loader(ret'[c].key) = Nil) =>
            ret'[c].value = Nil]_vars

\* a caller's second Get of the unknown key has returned absent after the
\* Loader ran twice for it
AbsentWitness ==
  /\ loads[Unknown] = 2
  /\ \E c \in DOMAIN pc :
       /\ pc[c] = "idle" /\ gets[c] = 2
       /\ ret[c] = [key |-> Unknown, value |-> Nil]
  /\ \A c \in DOMAIN pc : gets[c] = 2 \/ gets[c] = 0
  /\ nHit = 0

\* the sum of the Get calls made by the callers
RECURSIVE SumGets(_)
SumGets(cs) ==
  IF cs = {}
    THEN 0
    ELSE LET c == CHOOSE x \in cs : TRUE IN gets[c] + SumGets(cs \ {c})

GetReturns == <>[]((\A c \in DOMAIN pc : pc[c] = "idle") /\ inflight = {})

\* a caller waits for the load another caller has in flight
GetReturnsWitness ==
  \E c, d \in DOMAIN pc :
    /\ pc[c] = "waiting" /\ pc[d] = "loaded"
    /\ gkey[c] = gkey[d] /\ gkey[c] \in inflight

\* C20: a caller inside Get can always take its next step, except a waiter,
\* which waits for a load of its own key: no Get waits for the Loader call
\* of another key.
NotSerialized ==
  \A c \in DOMAIN pc :
    (pc[c] # "idle" /\ ~ENABLED TourStep(c)) =>
      /\ pc[c] = "waiting"
      /\ \E d \in DOMAIN pc : /\ d # c
                              /\ pc[d] \in {"loading", "loaded"}
                              /\ gkey[d] = gkey[c]

\* the Loader is running for two different keys at the same time
TwoLoads ==
  \E c, d \in DOMAIN pc :
    /\ pc[c] = "loading" /\ pc[d] = "loading"
    /\ gkey[c] # gkey[d]
    /\ inflight = {gkey[c], gkey[d]}

====
